---- MODULE Spec2Model ----
(***************************************************************************)
(* A model of the NCM container decoder of ncmdump-gui                     *)
(* (src-tauri/src/main.rs): the `dump` command and the functions it calls. *)
(*                                                                         *)
(* The container is a sequence of bytes with a read cursor, exactly as the *)
(* code sees it through std::fs::File.  The third-party conversions the    *)
(* code calls (AES-128/ECB/PKCS7, base64, UTF-8 and JSON parsing) are      *)
(* modelled by what their contract lets them return for an input of the    *)
(* given length: an error, or one of a bounded set of results.             *)
(*                                                                         *)
(* Reads fail only by reaching the end of the file (no device errors);     *)
(* `read` may return any positive number of bytes up to the size of the    *)
(* buffer it is given, as std::io::Read allows.                            *)
(***************************************************************************)
EXTENDS Integers, Sequences, FiniteSets, TLC

VARIABLES
    file,          \* the bytes of the .ncm file
    pos,           \* the cursor of the open File
    pc,            \* the position of the control flow
    key_data,      \* generate_key_box: its argument (the master key)
    key_box,       \* generate_key_box: the table; dump: the key box
    last_byte,     \* generate_key_box: last_byte
    key_offset,    \* generate_key_box: key_offset
    i,             \* generate_key_box: the loop index
    meta_data,     \* dump: the metadata record (a JSON value)
    image_data,    \* dump: the image bytes
    buffer,        \* decrypt_file_data: buffer
    reads,         \* decrypt_file_data: what each call of f.read returned
    image_file,    \* the image artifact on disk
    audio_file,    \* the audio artifact on disk
    result,        \* what dump returned (or that it panicked)
    ran,           \* the stages dump has called, in call order
    pass,          \* double application: which application is running
    input,         \* double application: the bytes first given
    reads1         \* double application: the reads of the first application

vars == <<file, pos, pc, key_data, key_box, last_byte, key_offset, i,
          meta_data, image_data, buffer, reads, image_file, audio_file,
          result, ran, pass, input, reads1>>

(***************************************************************************)
(* Bounds of the model.                                                    *)
(***************************************************************************)
\* the longest audio section enumerated
MaxAudio == 3
\* the longest master key enumerated
MaxKeyLen == 2

(***************************************************************************)
(* Bytes.                                                                  *)
(***************************************************************************)
Byte == 0..255

RECURSIVE BitXor(_, _)
\* the ^ operator on unsigned integers
BitXor(a, b) ==
    IF a = 0 THEN b
    ELSE IF b = 0 THEN a
    ELSE ((a + b) % 2) + 2 * BitXor(a \div 2, b \div 2)

\* `for byte in &mut data { *byte ^= k }`
XorAll(data, k) == [n \in 1..Len(data) |-> BitXor(data[n], k)]

\* n bytes of value b
Fill(n, b) == [k \in 1..n |-> b]

Min(a, b) == IF a < b THEN a ELSE b

\* data[n..] of a slice; the caller checks n <= len, as the slice index does
SliceFrom(data, n) == SubSeq(data, n + 1, Len(data))

(***************************************************************************)
(* The File: sequential reads of a byte sequence.                          *)
(***************************************************************************)
\* b"CTENFDAM"
Magic == <<67, 84, 69, 78, 70, 68, 65, 77>>

\* f.read_exact(&mut buf) with buf.len() = n at cursor p: the bytes and the
\* new cursor, or UnexpectedEof with everything up to the end consumed
ReadExact(f, p, n) ==
    IF p + n <= Len(f)
    THEN [ok |-> TRUE, bytes |-> SubSeq(f, p + 1, p + n), pos |-> p + n]
    ELSE [ok |-> FALSE, bytes |-> <<>>, pos |-> IF p < Len(f) THEN Len(f) ELSE p]

\* little-endian u32 of 4 bytes
U32LE(b) == b[1] + 256 * b[2] + 65536 * b[3] + 16777216 * b[4]

\* f.read_u32::<LittleEndian>()
ReadU32(f, p) ==
    LET r == ReadExact(f, p, 4)
    IN  [ok |-> r.ok, val |-> IF r.ok THEN U32LE(r.bytes) ELSE 0, pos |-> r.pos]

\* the encoding of n as a little-endian u32 (used to build containers)
LE32(n) == <<n % 256, (n \div 256) % 256, (n \div 65536) % 256, (n \div 16777216) % 256>>

(***************************************************************************)
(* generate_key_box.                                                       *)
(***************************************************************************)
\* a Vec<u8> is a sequence; v[n] and v[n] = x of the code count from 0
At(v, n) == v[n + 1]
Put(v, n, x) == [v EXCEPT ![n + 1] = x]

\* `(0..=255).collect()`
IdentityBox == SubSeq([n \in 1..256 |-> n - 1], 1, 256)

\* the loop body with `key_box[c] = key_box[i]` in place of `key_box[c] = swap`
KeyBoxStepNoTemp(kb, lb, ko, n, key) ==
    LET swap == At(kb, n)
        c    == (swap + lb + At(key, ko)) % 256
        kb1  == Put(kb, n, At(kb, c))
    IN  [key_box    |-> Put(kb1, c, At(kb1, n)),
         last_byte  |-> c,
         key_offset |-> IF ko + 1 >= Len(key) THEN 0 ELSE ko + 1]

\* one iteration of `for i in 0..256` (n is i)
KeyBoxStep(kb, lb, ko, n, key) ==
    LET swap == At(kb, n)
        c    == (swap + lb + At(key, ko)) % 256
        kb1  == Put(kb, n, At(kb, c))
    IN  [key_box    |-> Put(kb1, c, swap),
         last_byte  |-> c,
         key_offset |-> IF ko + 1 >= Len(key) THEN 0 ELSE ko + 1]

RECURSIVE KeyBoxLoop(_, _, _, _)
\* the iterations n .. n + count - 1 of the loop from the state s of its
\* variables, first half then second half (count >= 1)
KeyBoxLoop(s, n, count, key) ==
    IF count = 1
    THEN KeyBoxStep(s.key_box, s.last_byte, s.key_offset, n, key)
    ELSE LET half == count \div 2
             mid  == KeyBoxLoop(s, n, half, key)
         IN  \* mid is evaluated (its last_byte is a u8) before the second half
             IF mid.last_byte \in Byte
             THEN KeyBoxLoop(mid, n + half, count - half, key)
             ELSE mid

\* generate_key_box(key_data): `key_data[key_offset]` is out of bounds in the
\* first iteration when key_data is empty, and the thread panics
GenerateKeyBox(key) ==
    IF Len(key) = 0
    THEN [panic |-> TRUE, key_box |-> IdentityBox]
    ELSE [panic |-> FALSE,
          key_box |-> KeyBoxLoop([key_box |-> IdentityBox, last_byte |-> 0,
                                  key_offset |-> 0], 0, 256, key).key_box]

(***************************************************************************)
(* decrypt_file_data: the transform of one chunk.                          *)
(***************************************************************************)
\* key_box[(key_box[j] + key_box[(key_box[j] + j) & 0xFF]) & 0xFF]
KeyStream(kb, j) == At(kb, (At(kb, j) + At(kb, (At(kb, j) + j) % 256)) % 256)

\* the transform with a wrapping add in place of ^
DecryptChunkAdd(chunk, kb) ==
    [n \in 1..Len(chunk) |-> (chunk[n] + KeyStream(kb, n % 256)) % 256]

\* `for i in 0..bytes_read { let j = (i + 1) & 0xFF; chunk[i] ^= ... }`
\* (chunk[n] here is chunk[i] with i = n - 1, so j = n mod 256)
DecryptChunk(chunk, kb) ==
    [n \in 1..Len(chunk) |-> BitXor(chunk[n], KeyStream(kb, n % 256))]

\* `[0u8; 0x8000]`: the size of the chunk buffer handed to f.read
ChunkSize == 32768

(***************************************************************************)
(* The conversions of the libraries, by their contracts.                   *)
(***************************************************************************)
\* Ecb::<Aes128, Pkcs7>::decrypt_vec(ct): an error when the length is no
\* positive multiple of the 16-byte block or the padding is invalid; else a
\* plaintext shorter than the ciphertext by the padding (1..16 bytes).  The
\* plaintext is any of `plains` of a fitting length.
EcbDecrypt(ct, plains) ==
    IF Len(ct) = 0 \/ Len(ct) % 16 # 0
    THEN {[ok |-> FALSE, bytes |-> <<>>]}
    ELSE {[ok |-> FALSE, bytes |-> <<>>]}
         \cup {[ok |-> TRUE, bytes |-> p] :
                 p \in {q \in plains : Len(ct) - Len(q) \in 1..16}}

\* BASE64_STANDARD.decode(text): an error when the length is no multiple of 4
\* or a character is invalid; else 3 bytes for every 4 characters, less the
\* one or two bytes that `=` padding stands for.
Base64Decode(text) ==
    IF Len(text) % 4 # 0
    THEN {[ok |-> FALSE, bytes |-> <<>>]}
    ELSE IF Len(text) = 0
    THEN {[ok |-> TRUE, bytes |-> <<>>]}
    ELSE {[ok |-> FALSE, bytes |-> <<>>]}
         \cup {[ok |-> TRUE, bytes |-> Fill(3 * (Len(text) \div 4) - pad, 0)] :
                 pad \in 0..2}

\* serde_json::Value, as far as dump looks into it: its type and, for an
\* object, the value of the key "format"
NullValue == [type |-> "Null", str |-> ""]
StringValue(s) == [type |-> "String", str |-> s]
NumberValue == [type |-> "Number", str |-> ""]
Object(fmt) == [type |-> "Object", format |-> fmt]
NonObject(t) == [type |-> t, format |-> NullValue]

\* the text lengths of the shortest JSON documents of each shape: `1`, `{}`,
\* `{"format":1}`, `{"format":"mp3"}`
JsonValues(len) ==
    (IF len >= 1 THEN {NonObject("Number")} ELSE {})
    \cup (IF len >= 2 THEN {Object(NullValue), NonObject("Array")} ELSE {})
    \cup (IF len >= 12 THEN {Object(NumberValue)} ELSE {})
    \cup (IF len >= 16 THEN {Object(StringValue("mp3")), Object(StringValue("flac"))} ELSE {})

\* String::from_utf8 and then serde_json::from_str: an error, or a value
\* whose text fits the length
ParseJson(text) ==
    {[ok |-> FALSE, value |-> NonObject("Null")]}
    \cup {[ok |-> TRUE, value |-> v] : v \in JsonValues(Len(text))}

\* meta_data["format"]: Value::Null for a missing key or a non-object
IndexFormat(v) == IF v.type = "Object" THEN v.format ELSE NullValue

(***************************************************************************)
(* The stages of dump.  Each gives the set of outcomes the stage can have  *)
(* on file f with the cursor at p: kind is "ok", "err" (an io::Error is    *)
(* returned) or "panic" (the thread panics inside the stage).              *)
(***************************************************************************)
Outcome(kind, msg, p, bytes, box, value) ==
    [kind |-> kind, msg |-> msg, pos |-> p, bytes |-> bytes, key_box |-> box,
     value |-> value]

Ok(p, bytes, box, value) == Outcome("ok", "", p, bytes, box, value)
Err(msg, p) == Outcome("err", msg, p, <<>>, IdentityBox, NonObject("Null"))
Panic(msg, p) == Outcome("panic", msg, p, <<>>, IdentityBox, NonObject("Null"))

\* open_ncm_file without the comparison of the header
OpenNcmFileNoCheck(f) ==
    LET r == ReadExact(f, 0, 8)
    IN  IF ~r.ok THEN {Err("UnexpectedEof", r.pos)}
        ELSE {Ok(r.pos, <<>>, IdentityBox, NonObject("Null"))}

\* open_ncm_file: the cursor is at 0 after File::open
OpenNcmFile(f) ==
    LET r == ReadExact(f, 0, 8)
    IN  IF ~r.ok THEN {Err("UnexpectedEof", r.pos)}
        ELSE IF r.bytes # Magic THEN {Err("Invalid file header", r.pos)}
        ELSE {Ok(r.pos, <<>>, IdentityBox, NonObject("Null"))}

\* the master keys enumerated: the byte values and the sequences of them
KeyBytes == {0, 42}
Keys == UNION {[1..n -> KeyBytes] : n \in 1..MaxKeyLen}

\* what the key blob can decrypt to: the 17 bytes that are skipped and a
\* master key (possibly empty), or fewer than 17 bytes
KeyPlains == {Fill(17, 110) \o k : k \in Keys \cup {<<>>}} \cup {Fill(16, 110), Fill(3, 110)}

\* f.read_exact replaced by one f.read, which returns what is there
ReadExactShort(f, p, n) ==
    [ok |-> TRUE, bytes |-> SubSeq(f, p + 1, Min(p + n, Len(f))),
     pos |-> Min(p + n, Len(f))]

\* `let mut buf = vec![0; n]; f.read_exact(&mut buf)?` of the three sections
ReadSection(f, p, n) == ReadExact(f, p, n)

\* decrypt_key_data(f, key_length)
DecryptKeyData(f, p, key_length) ==
    LET r == ReadSection(f, p, key_length)
    IN  IF ~r.ok THEN {Err("UnexpectedEof", r.pos)}
        ELSE {IF ~d.ok THEN Err("decrypt_vec", r.pos)
              ELSE IF Len(d.bytes) < 17 THEN Panic("decrypted_data[17..]", r.pos)
              ELSE Ok(r.pos, SliceFrom(d.bytes, 17), IdentityBox, NonObject("Null")) :
                 d \in EcbDecrypt(XorAll(r.bytes, 100), KeyPlains)}

\* decrypt_key(f): seek, read the length, decrypt_key_data, generate_key_box
DecryptKey(f, p) ==
    LET len == ReadU32(f, p + 2)
    IN  IF ~len.ok THEN {Err("UnexpectedEof", len.pos)}
        ELSE {IF kd.kind # "ok" THEN kd
              ELSE LET g == GenerateKeyBox(kd.bytes)
                   IN  IF g.panic THEN Panic("key_data[key_offset]", kd.pos)
                       ELSE Ok(kd.pos, kd.bytes, g.key_box, NonObject("Null")) :
                 kd \in DecryptKeyData(f, len.pos, len.val)}

\* the lengths of what the metadata blob can decrypt to
MetaPlainLens == {0, 5, 6, 7, 8, 16, 18, 22}
MetaPlains == {Fill(n, 123) : n \in MetaPlainLens}

\* the outcomes of decrypt_meta_data from the base64 text on
MetaFromText(text, p) ==
    UNION {IF ~b.ok THEN {Err("base64", p)}
           ELSE UNION {IF ~d.ok THEN {Err("decrypt_vec", p)}
                       ELSE IF Len(d.bytes) < 6 THEN {Panic("decrypted_data[6..]", p)}
                       ELSE {IF ~j.ok THEN Err("utf8 or json", p)
                             ELSE Ok(p, <<>>, IdentityBox, j.value) :
                                j \in ParseJson(SliceFrom(d.bytes, 6))} :
                          d \in EcbDecrypt(b.bytes, MetaPlains)} :
              b \in Base64Decode(text)}

\* decrypt_meta_data(f)
DecryptMetaData(f, p) ==
    LET len == ReadU32(f, p)
        r   == ReadSection(f, len.pos, len.val)
        x   == XorAll(r.bytes, 99)
    IN  IF ~len.ok THEN {Err("UnexpectedEof", len.pos)}
        ELSE IF ~r.ok THEN {Err("UnexpectedEof", r.pos)}
        ELSE IF Len(x) < 22 THEN {Panic("meta_data[22..]", r.pos)}
        ELSE MetaFromText(SliceFrom(x, 22), r.pos)

\* decrypt_image_data(f)
DecryptImageData(f, p) ==
    LET crc  == ReadU32(f, p)
        size == ReadU32(f, crc.pos + 5)
        r    == ReadSection(f, size.pos, size.val)
    IN  IF ~crc.ok THEN {Err("UnexpectedEof", crc.pos)}
        ELSE IF ~size.ok THEN {Err("UnexpectedEof", size.pos)}
        ELSE IF ~r.ok THEN {Err("UnexpectedEof", r.pos)}
        ELSE {Ok(r.pos, r.bytes, IdentityBox, NonObject("Null"))}

\* f.read(&mut chunk): 0 at the end of the file, else any number of bytes
\* from 1 to what is left and fits the buffer
ReadLens(f, p) ==
    IF p >= Len(f) THEN {0} ELSE 1..Min(Len(f) - p, ChunkSize)

(***************************************************************************)
(* The containers enumerated.                                              *)
(***************************************************************************)
AudioBytes == {0, 90}
AudioStreams == UNION {[1..n -> AudioBytes] : n \in 0..MaxAudio}

\* the layout of a container: header, 2 reserved bytes, the key section,
\* the metadata section, CRC and 5 reserved bytes, the image section, audio
Build(hdr, keySec, metaSec, img, audio) ==
    hdr \o <<0, 0>> \o LE32(Len(keySec)) \o keySec
        \o LE32(Len(metaSec)) \o metaSec
        \o Fill(9, 0) \o LE32(Len(img)) \o img \o audio

KeySec == Fill(32, 7)
MetaSec == Fill(66, 11)
KeySecs == {<<>>, Fill(5, 7), Fill(16, 7), KeySec}
MetaSecs == {<<>>, Fill(10, 11), Fill(22, 11), Fill(25, 11), Fill(46, 11), MetaSec}
Images == {<<>>, <<137, 80>>}
BadHeaders == {[Magic EXCEPT ![k] = 0] : k \in 1..8} \cup {[k \in 1..8 |-> Magic[k] + 32]}

Whole == Build(Magic, KeySec, MetaSec, <<137, 80>>, <<7, 9>>)

\* a container whose key length prefix declares more than the file holds
OverDeclared == Magic \o <<0, 0>> \o <<0, 0, 0, 1>> \o KeySec

Files ==
    {Build(Magic, KeySec, MetaSec, img, a) : img \in Images, a \in AudioStreams}
    \cup {Build(Magic, k, MetaSec, <<>>, <<7>>) : k \in KeySecs}
    \cup {Build(Magic, KeySec, m, <<>>, <<7>>) : m \in MetaSecs}
    \cup {Build(h, KeySec, MetaSec, <<>>, <<7>>) : h \in BadHeaders}
    \cup {SubSeq(Whole, 1, n) : n \in 0..Len(Whole)}
    \cup {OverDeclared}

(***************************************************************************)
(* dump.                                                                   *)
(***************************************************************************)
Running == [kind |-> "running", msg |-> "", stage |-> ""]
NoFile == [exists |-> FALSE, data |-> <<>>, ext |-> ""]

Init ==
    /\ file \in Files
    /\ pos = 0
    /\ pc = "open"
    /\ key_data = <<>>
    /\ key_box = IdentityBox
    /\ last_byte = 0
    /\ key_offset = 0
    /\ i = 0
    /\ meta_data = NonObject("Null")
    /\ image_data = <<>>
    /\ buffer = <<>>
    /\ reads = <<>>
    /\ image_file = NoFile
    /\ audio_file = NoFile
    /\ result = Running
    /\ ran = <<>>
    /\ pass = 0
    /\ input = <<>>
    /\ reads1 = <<>>

\* a stage result used without the ? operator: dump goes on whatever it is
AfterStageIgnoringErr(kind, next) == next

\* `stage(&mut f).map_err(|e| e.to_string())?`: go on when the stage returned
\* Ok, return (or unwind) otherwise
AfterStage(kind, next) == IF kind = "ok" THEN next ELSE "returned"

\* what dump's caller gets when a stage of dump ends as r
StageResult(r, stage) ==
    IF r.kind = "ok" THEN result
    ELSE [kind |-> r.kind, msg |-> r.msg, stage |-> stage]

\* line 47
Open ==
    /\ pc = "open"
    /\ \E r \in OpenNcmFile(file) :
         /\ ran' = Append(ran, "header")
         /\ pos' = r.pos
         /\ pc' = AfterStage(r.kind, "decrypt_key")
         /\ result' = StageResult(r, "header")
    /\ UNCHANGED <<file, key_data, key_box, last_byte, key_offset, i, meta_data,
                   image_data, buffer, reads, image_file, audio_file, pass,
                   input, reads1>>

\* line 50
CallDecryptKey ==
    /\ pc = "decrypt_key"
    /\ \E r \in DecryptKey(file, pos) :
         /\ ran' = Append(ran, "key")
         /\ pos' = r.pos
         /\ pc' = AfterStage(r.kind, "decrypt_meta_data")
         /\ result' = StageResult(r, "key")
         /\ key_data' = r.bytes
         /\ key_box' = r.key_box
    /\ UNCHANGED <<file, last_byte, key_offset, i, meta_data, image_data, buffer,
                   reads, image_file, audio_file, pass, input, reads1>>

\* line 53
CallDecryptMetaData ==
    /\ pc = "decrypt_meta_data"
    /\ \E r \in DecryptMetaData(file, pos) :
         /\ ran' = Append(ran, "metadata")
         /\ pos' = r.pos
         /\ pc' = AfterStage(r.kind, "decrypt_image_data")
         /\ result' = StageResult(r, "metadata")
         /\ meta_data' = r.value
    /\ UNCHANGED <<file, key_data, key_box, last_byte, key_offset, i, image_data,
                   buffer, reads, image_file, audio_file, pass, input, reads1>>

\* line 56
CallDecryptImageData ==
    /\ pc = "decrypt_image_data"
    /\ \E r \in DecryptImageData(file, pos) :
         /\ ran' = Append(ran, "image")
         /\ pos' = r.pos
         /\ pc' = AfterStage(r.kind, "write_image")
         /\ result' = StageResult(r, "image")
         /\ image_data' = r.bytes
    /\ UNCHANGED <<file, key_data, key_box, last_byte, key_offset, i, meta_data,
                   buffer, reads, image_file, audio_file, pass, input, reads1>>

\* lines 65-66: File::create of the .png either fails (nothing is created)
\* or creates the file, which write_all fills
WriteImage ==
    /\ pc = "write_image"
    /\ \E created \in BOOLEAN :
         IF created
         THEN /\ image_file' = [exists |-> TRUE, data |-> image_data, ext |-> "png"]
              /\ pc' = "decrypt_file_data"
              /\ UNCHANGED result
         ELSE /\ pc' = "returned"
              /\ result' = [kind |-> "err", msg |-> "File::create", stage |-> "write_image"]
              /\ UNCHANGED image_file
    /\ UNCHANGED <<file, pos, key_data, key_box, last_byte, key_offset, i, meta_data,
                   image_data, buffer, reads, audio_file, ran, pass, input, reads1>>

\* lines 204-217, one iteration of the loop of decrypt_file_data (called at
\* line 69): a read, and either the break or the transform of the chunk
ReadChunk ==
    /\ pc = "decrypt_file_data"
    /\ \E bytes_read \in ReadLens(file, pos) :
         /\ reads' = Append(reads, bytes_read)
         /\ ran' = IF reads = <<>> THEN Append(ran, "audio") ELSE ran
         /\ pos' = pos + bytes_read
         /\ IF bytes_read = 0
            THEN pc' = "audio_done" /\ UNCHANGED buffer
            ELSE /\ pc' = pc
                 /\ buffer' = buffer \o DecryptChunk(SubSeq(file, pos + 1, pos + bytes_read),
                                                      key_box)
    /\ UNCHANGED <<file, key_data, key_box, last_byte, key_offset, i, meta_data,
                   image_data, image_file, audio_file, result, pass, input, reads1>>

\* lines 70-74: the format, the audio file, Ok(())
WriteAudio ==
    /\ pc = "audio_done"
    /\ pass = 0
    /\ LET format == IndexFormat(meta_data)
       IN  IF format.type # "String"
           THEN /\ result' = [kind |-> "panic", msg |-> "as_str().unwrap()", stage |-> "format"]
                /\ UNCHANGED audio_file
           ELSE \E created \in BOOLEAN :
                  IF created
                  THEN /\ audio_file' = [exists |-> TRUE, data |-> buffer, ext |-> format.str]
                       /\ result' = [kind |-> "ok", msg |-> "", stage |-> ""]
                  ELSE /\ result' = [kind |-> "err", msg |-> "File::create", stage |-> "write_audio"]
                       /\ UNCHANGED audio_file
    /\ pc' = "returned"
    /\ UNCHANGED <<file, pos, key_data, key_box, last_byte, key_offset, i, meta_data,
                   image_data, buffer, reads, image_file, ran, pass, input, reads1>>

Next ==
    \/ Open
    \/ CallDecryptKey
    \/ CallDecryptMetaData
    \/ CallDecryptImageData
    \/ WriteImage
    \/ ReadChunk
    \/ WriteAudio

Spec == Init /\ [][Next]_vars

(***************************************************************************)
(* generate_key_box, iteration by iteration.                               *)
(***************************************************************************)
InitKeyBox ==
    /\ key_data \in Keys \cup {<<>>}
    /\ pc = "generate_key_box"
    /\ key_box = IdentityBox
    /\ last_byte = 0
    /\ key_offset = 0
    /\ i = 0
    /\ file = <<>>
    /\ pos = 0
    /\ meta_data = NonObject("Null")
    /\ image_data = <<>>
    /\ buffer = <<>>
    /\ reads = <<>>
    /\ image_file = NoFile
    /\ audio_file = NoFile
    /\ result = Running
    /\ ran = <<>>
    /\ pass = 0
    /\ input = <<>>
    /\ reads1 = <<>>

\* lines 135-143: the body of the loop, for the index i
KeyBoxIterate ==
    /\ pc = "generate_key_box"
    /\ i < 256
    /\ key_offset < Len(key_data)
    /\ LET s == KeyBoxStep(key_box, last_byte, key_offset, i, key_data)
       IN  /\ key_box' = s.key_box
           /\ last_byte' = s.last_byte
           /\ key_offset' = s.key_offset
    /\ i' = i + 1
    /\ UNCHANGED <<file, pos, pc, key_data, meta_data, image_data, buffer, reads,
                   image_file, audio_file, result, ran, pass, input, reads1>>

\* line 136 with an empty key_data: the index is out of bounds
KeyBoxIndexPanic ==
    /\ pc = "generate_key_box"
    /\ i < 256
    /\ key_offset >= Len(key_data)
    /\ pc' = "returned"
    /\ result' = [kind |-> "panic", msg |-> "key_data[key_offset]", stage |-> "key"]
    /\ UNCHANGED <<file, pos, key_data, key_box, last_byte, key_offset, i, meta_data,
                   image_data, buffer, reads, image_file, audio_file, ran, pass,
                   input, reads1>>

\* line 146: the loop is over and the table is returned
KeyBoxReturn ==
    /\ pc = "generate_key_box"
    /\ i = 256
    /\ pc' = "key_box_returned"
    /\ UNCHANGED <<file, pos, key_data, key_box, last_byte, key_offset, i, meta_data,
                   image_data, buffer, reads, image_file, audio_file, result, ran,
                   pass, input, reads1>>

NextKeyBox == KeyBoxIterate \/ KeyBoxIndexPanic \/ KeyBoxReturn

SpecKeyBox == InitKeyBox /\ [][NextKeyBox]_vars

(***************************************************************************)
(* decrypt_file_data applied to a stream and then to its own output, with  *)
(* the same key box.                                                       *)
(***************************************************************************)
InitTwice ==
    /\ \E k \in Keys : key_data = k /\ key_box = GenerateKeyBox(k).key_box
    /\ file \in AudioStreams
    /\ input = file
    /\ pass = 1
    /\ pos = 0
    /\ pc = "decrypt_file_data"
    /\ last_byte = 0
    /\ key_offset = 0
    /\ i = 256
    /\ meta_data = NonObject("Null")
    /\ image_data = <<>>
    /\ buffer = <<>>
    /\ reads = <<>>
    /\ image_file = NoFile
    /\ audio_file = NoFile
    /\ result = Running
    /\ ran = <<>>
    /\ reads1 = <<>>

\* the output of the first application becomes the stream of the second
Reapply ==
    /\ pc = "audio_done"
    /\ pass = 1
    /\ file' = buffer
    /\ pos' = 0
    /\ buffer' = <<>>
    /\ reads1' = reads
    /\ reads' = <<>>
    /\ pass' = 2
    /\ pc' = "decrypt_file_data"
    /\ UNCHANGED <<key_data, key_box, last_byte, key_offset, i, meta_data,
                   image_data, image_file, audio_file, result, ran, input>>

NextTwice == ReadChunk \/ Reapply

SpecTwice == InitTwice /\ [][NextTwice]_vars

(***************************************************************************)
(* The layout of the file, read off its bytes (used to state properties).  *)
(***************************************************************************)
Ran == {ran[n] : n \in 1..Len(ran)}
KeyDeclared == U32LE(SubSeq(file, 11, 14))
KeyTruncated == Len(file) >= 14 /\ Len(file) < 14 + KeyDeclared
MetaPrefixAt == 14 + KeyDeclared
MetaDeclared == U32LE(SubSeq(file, MetaPrefixAt + 1, MetaPrefixAt + 4))
MetaStart == MetaPrefixAt + 4
MetaTruncated == Len(file) >= MetaStart /\ Len(file) < MetaStart + MetaDeclared
ImagePrefixAt == MetaStart + MetaDeclared + 9
ImageDeclared == U32LE(SubSeq(file, ImagePrefixAt + 1, ImagePrefixAt + 4))
ImageStart == ImagePrefixAt + 4
ImageTruncated == Len(file) >= ImageStart /\ Len(file) < ImageStart + ImageDeclared
AudioStart == ImageStart + ImageDeclared
AudioSection == SubSeq(file, AudioStart + 1, Len(file))

(***************************************************************************)
(* Properties.                                                             *)
(***************************************************************************)
IsPermutation(kb) == Len(kb) = 256 /\ {kb[n] : n \in 1..256} = 0..255

\* C1: for a non-empty master key the table of generate_key_box is a
\* permutation of 0..255 before the loop, after every one of its 256
\* iterations (those with c = i too) and when it is returned.
C1_KeyBoxIsPermutation ==
    (pc \in {"generate_key_box", "key_box_returned"} /\ Len(key_data) > 0)
        => IsPermutation(key_box)

\* the table is returned after a last iteration with c = i = 255 and it is
\* not the identity
C1_Witness ==
    /\ pc = "key_box_returned"
    /\ last_byte = 255
    /\ key_box # IdentityBox

\* C2: every byte that decrypt_file_data has output is the byte of the audio
\* section at the same absolute offset k, XOR the keystream byte of
\* j = (k + 1) mod 256, whatever the reads returned.
C2_KeystreamByAbsoluteOffset ==
    (pc \in {"decrypt_file_data", "audio_done"} /\ pass = 0)
        => \A k \in 0..(Len(buffer) - 1) :
              At(buffer, k) = BitXor(At(AudioSection, k), KeyStream(key_box, (k + 1) % 256))

\* C3: the output of decrypt_file_data is the output of a single pass over
\* the whole audio section, however the reads split it.
C3_ChunkIndependence ==
    (pc = "audio_done" /\ pass = 0 /\ Len(AudioSection) <= ChunkSize)
        => buffer = DecryptChunk(AudioSection, key_box)

\* C4: a file of at least 8 bytes whose first 8 bytes are not CTENFDAM makes
\* dump return the invalid-header error from the header stage, with the
\* cursor still at 8 and no other stage called.
C4_BadMagic ==
    (pc # "open" /\ Len(file) >= 8 /\ SubSeq(file, 1, 8) # Magic)
        => /\ pc = "returned"
           /\ result = [kind |-> "err", msg |-> "Invalid file header", stage |-> "header"]
           /\ ran = <<"header">>
           /\ pos = 8

\* dump has returned on a file with a wrong header and more content after it
C4_Witness ==
    /\ pc = "returned"
    /\ Len(file) > 8
    /\ SubSeq(file, 1, 8) # Magic

\* the stage is the last one called, and it returned the end-of-file error
TruncatedAt(stage) ==
    /\ pc = "returned"
    /\ result = [kind |-> "err", msg |-> "UnexpectedEof", stage |-> stage]
    /\ ran[Len(ran)] = stage

\* C5: when the file ends before the declared length of the key, metadata
\* or image section, the stage that reads the section returns the
\* end-of-file error and dump returns it without calling a later stage; an
\* image buffer that is returned has the declared length.
C5_Truncation ==
    /\ ("key" \in Ran /\ KeyTruncated) => TruncatedAt("key")
    /\ ("metadata" \in Ran /\ MetaTruncated) => TruncatedAt("metadata")
    /\ ("image" \in Ran /\ ImageTruncated) => TruncatedAt("image")
    /\ pc \in {"write_image", "decrypt_file_data", "audio_done"}
          => Len(image_data) = ImageDeclared

\* the image stage has been called on a file that ends inside the image
C5_Witness == "image" \in Ran /\ ImageTruncated /\ Len(file) > ImageStart

\* C6: when the metadata length prefix is 0 the metadata stage does not fail
\* and yields the empty record.
C6_EmptyMetadataDecodes ==
    ("metadata" \in Ran /\ Len(file) >= MetaStart /\ MetaDeclared = 0)
        => /\ result.stage # "metadata"
           /\ meta_data = Object(NullValue)

\* C7: dump never panics: it returns Ok or an error.
C7_NoPanic == result.kind # "panic"

StageOrder == <<"header", "key", "metadata", "image", "audio">>

\* C8: the stages called are a prefix of header, key, metadata, image,
\* audio (fixed order, each at most once, none before its predecessor has
\* returned Ok); when a stage fails dump is over with that stage the last one
\* called and its error the result; a dump that returns Ok has called all.
C8_StageOrder ==
    /\ Len(ran) <= 5
    /\ ran = SubSeq(StageOrder, 1, Len(ran))
    /\ result.stage \in Ran
          => /\ pc = "returned"
             /\ result.kind \in {"err", "panic"}
             /\ ran[Len(ran)] = result.stage
    /\ (pc # "returned" /\ pc # "open") => result = Running
    /\ result.kind = "ok" => ran = StageOrder
    /\ pc = "returned" => ~ ENABLED Next

\* the metadata stage has returned an error after the header and key stages
C8_Witness == result.kind = "err" /\ result.stage = "metadata"

\* C9: decrypt_file_data applied to its own output, with the same key box
\* and the reads returning the same lengths (each byte at the same position
\* of the same chunk), gives back the bytes first given.
C9_Involution ==
    (pass = 2 /\ pc = "audio_done" /\ reads = reads1) => buffer = input

\* the second application is over, both were split in several reads, and
\* the first one changed the bytes
C9_Witness ==
    /\ pass = 2
    /\ pc = "audio_done"
    /\ reads = reads1
    /\ Len(reads) > 2
    /\ file # input

\* C10: when dump does not return Ok neither artifact exists, and the image
\* file exists at the return only if the audio file does.
C10_AllOrNothing ==
    pc = "returned"
        => /\ result.kind # "ok" => (~image_file.exists /\ ~audio_file.exists)
           /\ image_file.exists => audio_file.exists

====
